---------------------------- MODULE Spec2Model ----------------------------
(***************************************************************************)
(* A model of the A* weather router of Source/routeur.py                   *)
(* (calculate_route_astar_fixed and expand_waypoint) with the helpers it   *)
(* calls: Source/outils.py (geodesy), Source/polaire.py (polar table),     *)
(* Source/landmask.py (land mask) and Source/conventions.py.               *)
(*                                                                         *)
(* Numbers.  The program computes in floating point; the model computes    *)
(* in fixed point, always rounding down:                                   *)
(*   - angles (headings, wind directions, TWA) are whole degrees;          *)
(*   - speeds (boat and wind) are tenths of a knot;                        *)
(*   - positions are (lat, lon) pairs on a plane chart whose unit is       *)
(*     ChartUnit metres (lat grows to the north, lon to the east);         *)
(*   - distances returned by haversine are metres, costs are seconds,      *)
(*     timestamps are seconds after an epoch.                              *)
(* The sphere of outils.py is replaced by the plane: haversine is the      *)
(* Euclidean distance, destination_point moves along a straight line.      *)
(*                                                                         *)
(* Style.  A value the code binds to a local variable is a parameter of    *)
(* the operator that models the code after the assignment, so a function   *)
(* of the source is often a short chain of operators.                      *)
(***************************************************************************)
EXTENDS Integers, Sequences, FiniteSets, TLC

\* ------------------------------------------------------------------------
\* Fixed-point scales of the model
\* ------------------------------------------------------------------------

\* metres per chart unit
ChartUnit == 100

\* Python's None for the numeric fields of a waypoint
None == -999

Abs(x) == IF x < 0 THEN -x ELSE x

Max2(a, b) == IF a > b THEN a ELSE b

Min2(a, b) == IF a < b THEN a ELSE b

\* x * num / den rounded toward zero (x may be negative)
MulDivTrunc(x, num, den) ==
    IF x >= 0 THEN (x * num) \div den ELSE -(((-x) * num) \div den)

\* floor(sqrt(n)) by bisection on lo..hi
RECURSIVE IsqrtIn(_, _, _)
IsqrtIn(n, lo, hi) ==
    IF lo >= hi THEN lo
    ELSE LET mid == (lo + hi + 1) \div 2
         IN IF mid * mid <= n THEN IsqrtIn(n, mid, hi) ELSE IsqrtIn(n, lo, mid - 1)

Isqrt(n) == IsqrtIn(n, 0, 46340)

\* floor(1000 * sin(d degrees)) for d in 0..90
SinTable ==
    << 0, 17, 34, 52, 69, 87, 104, 121, 139, 156, 173, 190, 207,
       224, 241, 258, 275, 292, 309, 325, 342, 358, 374, 390, 406, 422,
       438, 453, 469, 484, 500, 515, 529, 544, 559, 573, 587, 601, 615,
       629, 642, 656, 669, 681, 694, 707, 719, 731, 743, 754, 766, 777,
       788, 798, 809, 819, 829, 838, 848, 857, 866, 874, 882, 891, 898,
       906, 913, 920, 927, 933, 939, 945, 951, 956, 961, 965, 970, 974,
       978, 981, 984, 987, 990, 992, 994, 996, 997, 998, 999, 999, 1000 >>

\* 1000 * sin and 1000 * cos of a whole number of degrees, rounded toward 0
Sin1000(deg) ==
    LET a == deg % 360
    IN  IF a <= 90 THEN SinTable[a + 1]
        ELSE IF a <= 180 THEN SinTable[180 - a + 1]
        ELSE IF a <= 270 THEN -SinTable[a - 180 + 1]
        ELSE -SinTable[360 - a + 1]

Cos1000(deg) == Sin1000(deg + 90)

\* ------------------------------------------------------------------------
\* Source/conventions.py
\* ------------------------------------------------------------------------

wrap_360(angle_deg) == angle_deg % 360

wrap_180(angle_deg) == ((angle_deg + 180) % 360) - 180

clamp(x, lo, hi) == Max2(lo, Min2(hi, x))

\* ------------------------------------------------------------------------
\* Source/outils.py
\* ------------------------------------------------------------------------

\* distance in metres between two chart positions
haversine(lat1, lon1, lat2, lon2) ==
    ChartUnit * Isqrt((lat2 - lat1) * (lat2 - lat1) + (lon2 - lon1) * (lon2 - lon1))

\* atan2(deast, dnorth) in whole degrees, rounded toward the north-south
\* axis: the angle q in 0..90 between that axis and the displacement, then
\* the quadrant; atan2(0, 0) = 0
Atan2Deg(deast, dnorth) ==
    LET e == Abs(deast)
        n == Abs(dnorth)
        q == Cardinality({d \in 1..90 : Sin1000(d) * n <= Cos1000(d) * e})
    IN  IF deast = 0 /\ dnorth = 0 THEN 0
        ELSE IF dnorth >= 0 /\ deast >= 0 THEN q
        ELSE IF dnorth < 0 /\ deast >= 0 THEN 180 - q
        ELSE IF dnorth < 0 THEN q - 180
        ELSE -q

\* initial course from point 1 to point 2, in [0, 360)
bearing(lat1, lon1, lat2, lon2) ==
    wrap_360(Atan2Deg(lon2 - lon1, lat2 - lat1))

\* the point d chart units away from (lat, lon) on course bearing_deg
Displace(lat, lon, bearing_deg, d) ==
    << lat + MulDivTrunc(Cos1000(bearing_deg), d, 1000),
       lon + MulDivTrunc(Sin1000(bearing_deg), d, 1000) >>

\* the point reached from (lat, lon) on course bearing_deg after distance_m
destination_point(lat, lon, bearing_deg, distance_m) ==
    Displace(lat, lon, bearing_deg, distance_m \div ChartUnit)

\* ------------------------------------------------------------------------
\* Source/polaire.py
\* A polar is a record [twa_array, tws_array, speed_matrix]: the TWA axis
\* in degrees, the TWS axis and the speeds in tenths of a knot.
\* ------------------------------------------------------------------------

RECURSIVE SeqMin(_)
SeqMin(s) == IF Len(s) = 1 THEN s[1] ELSE Min2(s[1], SeqMin(Tail(s)))

RECURSIVE SeqMax(_)
SeqMax(s) == IF Len(s) = 1 THEN s[1] ELSE Max2(s[1], SeqMax(Tail(s)))

\* np.searchsorted(a, x): the number of elements of the sorted a below x
searchsorted(a, x) == Cardinality({k \in 1..Len(a) : a[k] < x})

\* the bilinear blend of the four corner speeds with tx = nx / dx and
\* ty = ny / dy, and the final max(speed, 0)
Blend(v_ll, v_lh, v_hl, v_hh, nx, dx, ny, dy) ==
    Max2((v_ll * (dx - nx) * (dy - ny) + v_lh * nx * (dy - ny)
          + v_hl * (dx - nx) * ny + v_hh * nx * ny) \div (dx * dy), 0)

\* the cell of the bracketing indices; tx (ty) is 0 on a degenerate cell
Cell(polar, twa, tws, i_low, i_high, j_low, j_high) ==
    Blend(polar.speed_matrix[i_low][j_low], polar.speed_matrix[i_low][j_high],
          polar.speed_matrix[i_high][j_low], polar.speed_matrix[i_high][j_high],
          IF polar.tws_array[j_high] = polar.tws_array[j_low]
          THEN 0 ELSE tws - polar.tws_array[j_low],
          IF polar.tws_array[j_high] = polar.tws_array[j_low]
          THEN 1 ELSE polar.tws_array[j_high] - polar.tws_array[j_low],
          IF polar.twa_array[i_high] = polar.twa_array[i_low]
          THEN 0 ELSE twa - polar.twa_array[i_low],
          IF polar.twa_array[i_high] = polar.twa_array[i_low]
          THEN 1 ELSE polar.twa_array[i_high] - polar.twa_array[i_low])

\* i_low, i_high, j_low, j_high from the searchsorted indices i and j
\* (the model's sequences start at 1)
Bracket(polar, twa, tws, i, j) ==
    Cell(polar, twa, tws,
         Max2(i - 1, 0) + 1, Min2(i, Len(polar.twa_array) - 1) + 1,
         Max2(j - 1, 0) + 1, Min2(j, Len(polar.tws_array) - 1) + 1)

\* twa and tws are clamped to the axes
Interpolate(polar, twa, tws) ==
    Bracket(polar, twa, tws,
            searchsorted(polar.twa_array, twa), searchsorted(polar.tws_array, tws))

\* abs(twa) % 360, reflected to [0, 180]
FoldTwa(twa) == IF Abs(twa) % 360 > 180 THEN 360 - (Abs(twa) % 360) ELSE Abs(twa) % 360

\* boat speed (tenths of a knot) by bilinear interpolation of the polar
get_boat_speed(twa, tws, polar) ==
    Interpolate(polar,
                clamp(FoldTwa(twa), SeqMin(polar.twa_array), SeqMax(polar.twa_array)),
                clamp(tws, SeqMin(polar.tws_array), SeqMax(polar.tws_array)))

\* the largest speed of the matrix
get_max_speed(speed_matrix) ==
    SeqMax([r \in 1..Len(speed_matrix) |-> SeqMax(speed_matrix[r])])

\* 1000 * VMG: V * cos(TWA) and V * cos(180 - TWA)
compute_vmg_upwind(twa_deg, boat_speed_kn) == boat_speed_kn * Cos1000(twa_deg)

compute_vmg_downwind(twa_deg, boat_speed_kn) ==
    boat_speed_kn * Cos1000(180 - twa_deg)

\* The loops "for twa in range(search_min, search_max + 1, step)" keep the
\* first angle of the largest VMG: the running best is replaced only by a
\* strictly larger VMG.  A pair << twa, vmg >> is the best of a range of
\* angles; of the bests p and q of two adjacent ranges, p the lower one, q
\* wins only with a strictly larger VMG.
BetterOf(p, q) == IF q[2] > p[2] THEN q ELSE p

RECURSIVE BestUpwind(_, _, _, _)
BestUpwind(lo, hi, tws_kn, polar) ==
    IF lo = hi
    THEN << lo, compute_vmg_upwind(lo, get_boat_speed(lo, tws_kn, polar)) >>
    ELSE BetterOf(BestUpwind(lo, (lo + hi) \div 2, tws_kn, polar),
                  BestUpwind((lo + hi) \div 2 + 1, hi, tws_kn, polar))

RECURSIVE BestDownwind(_, _, _, _)
BestDownwind(lo, hi, tws_kn, polar) ==
    IF lo = hi
    THEN << lo, compute_vmg_downwind(lo, get_boat_speed(lo, tws_kn, polar)) >>
    ELSE BetterOf(BestDownwind(lo, (lo + hi) \div 2, tws_kn, polar),
                  BestDownwind((lo + hi) \div 2 + 1, hi, tws_kn, polar))

\* best_twa is None and best_vmg = -1e9 before the loop
BestTwa(best) == IF best[2] > -1000000000 THEN best[1] ELSE None

\* search_min = 25, search_max = 80, step = 1
find_optimal_twa_upwind(tws_kn, polar) == BestTwa(BestUpwind(25, 80, tws_kn, polar))

\* search_min = 100, search_max = 175, step = 1
find_optimal_twa_downwind(tws_kn, polar) ==
    BestTwa(BestDownwind(100, 175, tws_kn, polar))

\* ------------------------------------------------------------------------
\* Source/landmask.py
\* A land mask is a record [dataset, top, left, res, nrows, ncols, land,
\* sea_value, land_value]: dataset is FALSE when the raster could not be
\* opened; the raster has nrows x ncols square cells of res chart units,
\* its upper left corner is at (top, left), and the cells (row, col) of
\* land hold land_value, the others sea_value.
\* ------------------------------------------------------------------------

\* self.data[row, col]
RasterValue(mask, row, col) ==
    IF << row, col >> \in mask.land THEN mask.land_value ELSE mask.sea_value

\* the bounds check and the comparison with sea_value
CellIsSea(mask, row, col) ==
    IF row < 0 \/ row >= mask.nrows \/ col < 0 \/ col >= mask.ncols
    THEN FALSE
    ELSE RasterValue(mask, row, col) = mask.sea_value

is_sea(mask, lat, lon) ==
    IF ~mask.dataset THEN TRUE
    ELSE CellIsSea(mask, (mask.top - lat) \div mask.res, (lon - mask.left) \div mask.res)

\* "for i in range(n_samples + 1)": the i-th sample is on sea
SampleIsSea(mask, lat1, lon1, lat2, lon2, i, n_samples) ==
    is_sea(mask, lat1 + MulDivTrunc(lat2 - lat1, i, n_samples),
                 lon1 + MulDivTrunc(lon2 - lon1, i, n_samples))

\* A variant of is_path_clear whose loop is "for i in range(n_samples)": the
\* far end of the segment is not sampled
is_path_clear_open_ended(mask, lat1, lon1, lat2, lon2, n_samples) ==
    \A i \in 0..(n_samples - 1) : SampleIsSea(mask, lat1, lon1, lat2, lon2, i, n_samples)

is_path_clear(mask, lat1, lon1, lat2, lon2, n_samples) ==
    \A i \in 0..n_samples : SampleIsSea(mask, lat1, lon1, lat2, lon2, i, n_samples)

\* ------------------------------------------------------------------------
\* Source/meteo.py
\* A GribWindField is a record [valid_date, lats, lons, u10, v10]:
\* valid_date in seconds, lats the column lats[:, 0] and lons the row
\* lons[0, :] of the rectilinear grid (chart units), u10 and v10 the
\* matrices of the wind components in hundredths of a metre per second.
\* ------------------------------------------------------------------------

\* Python's None for a result that is otherwise a tuple; a result that is
\* otherwise a number x is the tuple << x >>
Nothing == << >>

\* a[::-1]
Flipped(a) == [k \in 1..Len(a) |-> a[Len(a) + 1 - k]]

\* the axis in ascending order, as lines 79-90 put it
Ascending(axis) == IF axis[2] < axis[1] THEN Flipped(axis) ELSE axis

\* lines 97-103 for one axis: the indices i0 and i1 (from 0) in the
\* ascending axis
AscendingPair(a, target) ==
    << Max2(searchsorted(a, target) - 1, 0), Min2(searchsorted(a, target), Len(a) - 1) >>

\* lines 106-114 for one axis: the indices in the original axis (from 1)
OriginalPair(axis, pair) ==
    IF axis[2] < axis[1]
    THEN << Min2(Len(axis) - 1 - pair[1], Len(axis) - 1 - pair[2]) + 1,
            Max2(Len(axis) - 1 - pair[1], Len(axis) - 1 - pair[2]) + 1 >>
    ELSE << pair[1] + 1, pair[2] + 1 >>

\* lines 92-95 for one axis
OffAxis(axis, target) ==
    target < SeqMin(Ascending(axis)) \/ target > SeqMax(Ascending(axis))

\* (i0, i1, j0, j1), or None outside the grid
find_bilinear_cell(lat_target, lon_target, lats, lons) ==
    IF OffAxis(lats, lat_target) \/ OffAxis(lons, lon_target)
    THEN Nothing
    ELSE OriginalPair(lats, AscendingPair(Ascending(lats), lat_target))
         \o OriginalPair(lons, AscendingPair(Ascending(lons), lon_target))

\* t = (target - x0) / (x1 - x0) clamped to [0, 1], as a numerator over
\* the denominator |x1 - x0|; 0 over 1 on a degenerate cell
Weight(target, x0, x1) ==
    IF x1 = x0 THEN << 0, 1 >>
    ELSE << clamp(IF x1 > x0 THEN target - x0 ELSE x0 - target, 0, Abs(x1 - x0)),
            Abs(x1 - x0) >>

\* lines 151-160: the blend of the four corners with the weights tx and ty
BlendField(f00, f01, f10, f11, tx, ty) ==
    (f00 * (tx[2] - tx[1]) * (ty[2] - ty[1]) + f01 * tx[1] * (ty[2] - ty[1])
     + f10 * (tx[2] - tx[1]) * ty[1] + f11 * tx[1] * ty[1]) \div (tx[2] * ty[2])

\* lines 127-160
BilinearIn(cell, lat_target, lon_target, lats, lons, field_2d) ==
    BlendField(field_2d[cell[1]][cell[3]], field_2d[cell[1]][cell[4]],
               field_2d[cell[2]][cell[3]], field_2d[cell[2]][cell[4]],
               Weight(lon_target, lons[cell[3]], lons[cell[4]]),
               Weight(lat_target, lats[cell[1]], lats[cell[2]]))

\* _bilinear: None outside the grid
bilinear(lat_target, lon_target, lats, lons, field_2d) ==
    IF find_bilinear_cell(lat_target, lon_target, lats, lons) = Nothing
    THEN Nothing
    ELSE << BilinearIn(find_bilinear_cell(lat_target, lon_target, lats, lons),
                       lat_target, lon_target, lats, lons, field_2d) >>

\* (u, v) of one field, None when either is None
FieldUv(f, lat, lon) ==
    IF bilinear(lat, lon, f.lats, f.lons, f.u10) = Nothing
       \/ bilinear(lat, lon, f.lats, f.lons, f.v10) = Nothing
    THEN Nothing
    ELSE bilinear(lat, lon, f.lats, f.lons, f.u10)
         \o bilinear(lat, lon, f.lats, f.lons, f.v10)

\* lines 198-204: alpha as a numerator over a denominator, clamped to [0, 1]
Alpha(timestamp, t0, t1) ==
    IF t1 - t0 <= 0 THEN << 0, 1 >>
    ELSE << clamp(timestamp - t0, 0, t1 - t0), t1 - t0 >>

\* (1 - alpha) * x0 + alpha * x1
Mix(x0, x1, alpha) == (x0 * (alpha[2] - alpha[1]) + x1 * alpha[1]) \div alpha[2]

\* lines 190-207
Between(uv0, uv1, alpha) ==
    IF uv0 = Nothing \/ uv1 = Nothing THEN Nothing
    ELSE << Mix(uv0[1], uv1[1], alpha), Mix(uv0[2], uv1[2], alpha) >>

\* lines 185-188: k1 = searchsorted(times, timestamp), k0 = k1 - 1
Bracketed(fields, lat, lon, timestamp, k1) ==
    Between(FieldUv(fields[k1], lat, lon), FieldUv(fields[k1 + 1], lat, lon),
            Alpha(timestamp, fields[k1].valid_date, fields[k1 + 1].valid_date))

\* A variant of wind_uv_at without lines 168-182 and 204: the first (last)
\* two fields are prolonged before the first (after the last) date
wind_uv_at_extrapolating(fields, lat, lon, timestamp) ==
    IF FieldUv(fields[1], lat, lon) = Nothing THEN Nothing
    ELSE IF timestamp <= fields[1].valid_date
    THEN << Mix(FieldUv(fields[1], lat, lon)[1], FieldUv(fields[2], lat, lon)[1],
                << timestamp - fields[1].valid_date,
                   fields[2].valid_date - fields[1].valid_date >>),
            Mix(FieldUv(fields[1], lat, lon)[2], FieldUv(fields[2], lat, lon)[2],
                << timestamp - fields[1].valid_date,
                   fields[2].valid_date - fields[1].valid_date >>) >>
    ELSE IF timestamp >= fields[Len(fields)].valid_date
    THEN << Mix(FieldUv(fields[Len(fields) - 1], lat, lon)[1],
                FieldUv(fields[Len(fields)], lat, lon)[1],
                << timestamp - fields[Len(fields) - 1].valid_date,
                   fields[Len(fields)].valid_date - fields[Len(fields) - 1].valid_date >>),
            Mix(FieldUv(fields[Len(fields) - 1], lat, lon)[2],
                FieldUv(fields[Len(fields)], lat, lon)[2],
                << timestamp - fields[Len(fields) - 1].valid_date,
                   fields[Len(fields)].valid_date - fields[Len(fields) - 1].valid_date >>) >>
    ELSE Bracketed(fields, lat, lon, timestamp,
                   searchsorted([k \in 1..Len(fields) |-> fields[k].valid_date],
                                timestamp))

\* (u, v) at (lat, lon, timestamp), None outside the grid
wind_uv_at(fields, lat, lon, timestamp) ==
    IF timestamp <= fields[1].valid_date THEN FieldUv(fields[1], lat, lon)
    ELSE IF timestamp >= fields[Len(fields)].valid_date
    THEN FieldUv(fields[Len(fields)], lat, lon)
    ELSE Bracketed(fields, lat, lon, timestamp,
                   searchsorted([k \in 1..Len(fields) |-> fields[k].valid_date],
                                timestamp))

\* lines 210-225: << wind_speed_kn, wind_dir_from_deg >> in tenths of a knot
\* and degrees, from (u, v) in hundredths of m/s (1 m/s = 1.9438 kn);
\* << >> when ValueError is raised
get_wind_from_grib(lat, lon, timestamp, grib_fields) ==
    LET uv == wind_uv_at(grib_fields, lat, lon, timestamp)
    IN  IF uv = Nothing THEN Nothing
        ELSE << (Isqrt(uv[1] * uv[1] + uv[2] * uv[2]) * 19438) \div 100000,
                wrap_360(270 - Atan2Deg(uv[2], uv[1])) >>

\* ------------------------------------------------------------------------
\* Source/routeur.py: parameters
\* ------------------------------------------------------------------------

\* 0.5 kn, in tenths of a knot
DEFAULT_MIN_BOAT_SPEED_KN == 5

PENALTY_TACK == 180

PENALTY_GYBE == 120

PENALTY_HEADING_CHANGE == 0

PENALTY_LOW_WIND == 300

\* 6 kn, in tenths of a knot
LOW_WIND_THRESHOLD_KN == 60

DEFAULT_BEAM_WIDTH == 40

\* 0.05 degree of latitude is 5.56 km: 56 chart units
DEFAULT_DLAT == 56

DEFAULT_DLON == 56

\* the factor 0.514444 (m/s per knot) of routeur.py, in thousandths
KnotToMps1000 == 514

\* the value 1e9 returned as heuristic when the polar has no speed
HeuristicNoSpeed == 1000000000

\* ------------------------------------------------------------------------
\* Source/routeur.py: helpers
\* ------------------------------------------------------------------------

state_key(lat, lon, timestamp, departure, dlat, dlon, dt_seconds) ==
    << lat \div dlat, lon \div dlon, (timestamp - departure) \div dt_seconds >>

sign_of_tack(heading_deg, wind_dir_from_deg) ==
    LET delta == ((wind_dir_from_deg - heading_deg + 540) % 360) - 180
    IN  IF delta = 0 THEN 0 ELSE IF delta > 0 THEN 1 ELSE -1

\* A variant of maneuver_penalty that classifies a change of tack from the
\* new TWA alone
maneuver_penalty_from_new_twa(prev_heading, new_heading, wind_dir_from, prev_tack, new_tack) ==
    IF prev_heading = None THEN << 0, "None" >>
    ELSE IF prev_tack = 0 \/ new_tack = 0 THEN << 0, "None" >>
    ELSE IF prev_tack = new_tack THEN << PENALTY_HEADING_CHANGE, "None" >>
    ELSE IF Abs(((wind_dir_from - new_heading + 540) % 360) - 180) < 90
    THEN << PENALTY_TACK, "tack" >>
    ELSE << PENALTY_GYBE, "gybe" >>

\* A variant of maneuver_penalty without the test of lines 64-65 for a
\* previous heading that is None
maneuver_penalty_without_start_test(prev_heading, new_heading, wind_dir_from, prev_tack, new_tack) ==
    IF prev_tack = 0 \/ new_tack = 0 THEN << 0, "None" >>
    ELSE IF prev_tack = new_tack THEN << PENALTY_HEADING_CHANGE, "None" >>
    ELSE IF Abs(((wind_dir_from - prev_heading + 540) % 360) - 180)
            + Abs(((wind_dir_from - new_heading + 540) % 360) - 180) < 180
    THEN << PENALTY_TACK, "tack" >>
    ELSE << PENALTY_GYBE, "gybe" >>

\* << penalty, maneuver >>
maneuver_penalty(prev_heading, new_heading, wind_dir_from, prev_tack, new_tack) ==
    IF prev_heading = None THEN << 0, "None" >>
    ELSE IF prev_tack = 0 \/ new_tack = 0 THEN << 0, "None" >>
    ELSE IF prev_tack = new_tack THEN << PENALTY_HEADING_CHANGE, "None" >>
    ELSE LET prev_twa == Abs(((wind_dir_from - prev_heading + 540) % 360) - 180)
             new_twa == Abs(((wind_dir_from - new_heading + 540) % 360) - 180)
         IN  \* twa = 0.5 * (prev_twa + new_twa) < 90
             IF prev_twa + new_twa < 180
             THEN << PENALTY_TACK, "tack" >>
             ELSE << PENALTY_GYBE, "gybe" >>

\* A variant of compute_heuristic_admissible that divides by the slowest
\* speed that still sails, DEFAULT_MIN_BOAT_SPEED_KN, not by the fastest
compute_heuristic_at_min_speed(lat, lon, goal_lat, goal_lon, max_speed_kn) ==
    (haversine(lat, lon, goal_lat, goal_lon) * 10000)
    \div (KnotToMps1000 * DEFAULT_MIN_BOAT_SPEED_KN)

\* dist / (max_speed_kn * 0.514444), in seconds
compute_heuristic_admissible(lat, lon, goal_lat, goal_lon, max_speed_kn) ==
    LET dist == haversine(lat, lon, goal_lat, goal_lon)
    IN  IF max_speed_kn <= 0 THEN HeuristicNoSpeed
        ELSE (dist * 10000) \div (KnotToMps1000 * max_speed_kn)

\* np.linspace(-25, 25, n_spread)
Linspace25(n_spread) ==
    IF n_spread = 1 THEN {-25}
    ELSE {-25 + (50 * k) \div (n_spread - 1) : k \in 0..(n_spread - 1)}

\* step 4: every base heading with its -10 and +10 neighbours
Jitter(base) == base \cup {(b + d) % 360 : b \in base, d \in {-10, 10}}

\* steps 1 to 3: around the bearing to the goal, and the two upwind and
\* the two downwind VMG headings
BaseHeadings(bearing_goal, wind_dir_from, twa_up, twa_dn, n_spread) ==
    {(bearing_goal + d) % 360 : d \in Linspace25(n_spread)}
    \cup {(wind_dir_from + s * twa_up) % 360 : s \in {-1, 1}}
    \cup {(wind_dir_from + s * twa_dn) % 360 : s \in {-1, 1}}

\* sorted(S) for a set of integers
SortedSeq(S) ==
    [k \in 1..Cardinality(S) |->
        CHOOSE x \in S : Cardinality({y \in S : y < x}) = k - 1]

\* n_spread = 6
generate_candidate_headings(lat, lon, timestamp, goal_lat, goal_lon, wind_speed_kn, wind_dir_from, polar) ==
    SortedSeq(Jitter(BaseHeadings(bearing(lat, lon, goal_lat, goal_lon),
                                  wind_dir_from,
                                  find_optimal_twa_upwind(wind_speed_kn, polar),
                                  find_optimal_twa_downwind(wind_speed_kn, polar),
                                  6)))

\* ------------------------------------------------------------------------
\* Source/routeur.py: expand_waypoint
\* The landmask argument is a land mask record with one more field,
\* present, FALSE for landmask=None.  wind is the pair << wind_speed,
\* wind_dir >> that meteo_client.get_wind returned.
\* ------------------------------------------------------------------------

\* line 164
TwaOf(wind_dir, heading) == Abs(((wind_dir - heading + 180) % 360) - 180)

\* A variant of LowWindPenalty whose test is wind_speed <= LOW_WIND_THRESHOLD_KN
LowWindPenaltyAtThreshold(wind_speed) ==
    IF wind_speed <= LOW_WIND_THRESHOLD_KN THEN PENALTY_LOW_WIND ELSE 0

\* lines 184-187
LowWindPenalty(wind_speed) ==
    IF wind_speed < LOW_WIND_THRESHOLD_KN THEN PENALTY_LOW_WIND ELSE 0

\* A variant of CandidateRecord that forgets to advance the clock: the
\* candidate keeps its parent's timestamp.
CandidateRecordSameTime(heading, lat, lon, timestamp, g_cost, time_step, wind, boat_speed, new, new_tack, man) ==
    [lat |-> new[1],
     lon |-> new[2],
     timestamp |-> timestamp,
     heading |-> heading,
     boat_speed |-> boat_speed,
     wind_speed |-> wind[1],
     wind_direction |-> wind[2],
     twa |-> TwaOf(wind[2], heading),
     tack |-> new_tack,
     maneuver |-> man[2],
     g_cost |-> g_cost + (time_step + man[1] + LowWindPenalty(wind[1])),
     parent |-> << lat, lon, timestamp >>]

\* lines 190-206: the candidate dictionary (the unused g_time is left out)
CandidateRecord(heading, lat, lon, timestamp, g_cost, time_step, wind, boat_speed, new, new_tack, man) ==
    [lat |-> new[1],
     lon |-> new[2],
     timestamp |-> timestamp + time_step,
     heading |-> heading,
     boat_speed |-> boat_speed,
     wind_speed |-> wind[1],
     wind_direction |-> wind[2],
     twa |-> TwaOf(wind[2], heading),
     tack |-> new_tack,
     maneuver |-> man[2],
     g_cost |-> g_cost + (time_step + man[1] + LowWindPenalty(wind[1])),
     parent |-> << lat, lon, timestamp >>]

\* lines 180-182
CandidateOnTack(heading, lat, lon, timestamp, g_cost, time_step, prev_heading, prev_tack, wind, boat_speed, new, new_tack) ==
    CandidateRecord(heading, lat, lon, timestamp, g_cost, time_step, wind,
                    boat_speed, new, new_tack,
                    maneuver_penalty(prev_heading, heading, wind[2], prev_tack,
                                     new_tack))

\* A variant of CandidateAt without the test of lines 176-178: the segment
\* is never looked up in the land mask.
CandidateAtIgnoringLand(heading, lat, lon, timestamp, g_cost, time_step, landmask, prev_heading, prev_tack, wind, boat_speed, new) ==
    << CandidateOnTack(heading, lat, lon, timestamp, g_cost, time_step,
                       prev_heading, prev_tack, wind, boat_speed, new,
                       sign_of_tack(heading, wind[2])) >>

\* lines 176-178: << >> is "continue"
CandidateAt(heading, lat, lon, timestamp, g_cost, time_step, landmask, prev_heading, prev_tack, wind, boat_speed, new) ==
    IF landmask.present /\ ~is_path_clear(landmask, lat, lon, new[1], new[2], 6)
    THEN << >>
    ELSE << CandidateOnTack(heading, lat, lon, timestamp, g_cost, time_step,
                            prev_heading, prev_tack, wind, boat_speed, new,
                            sign_of_tack(heading, wind[2])) >>

\* A variant of CandidateAtSpeed without the test of lines 168-169: a heading
\* is kept however slow the boat is on it.
CandidateAtAnySpeed(heading, lat, lon, timestamp, g_cost, time_step, landmask, prev_heading, prev_tack, wind, boat_speed) ==
    CandidateAt(heading, lat, lon, timestamp, g_cost, time_step, landmask,
                prev_heading, prev_tack, wind, boat_speed,
                destination_point(lat, lon, heading,
                    (boat_speed * KnotToMps1000 * time_step) \div 10000))

\* lines 168-174
CandidateAtSpeed(heading, lat, lon, timestamp, g_cost, time_step, landmask, prev_heading, prev_tack, wind, boat_speed) ==
    IF boat_speed < DEFAULT_MIN_BOAT_SPEED_KN THEN << >>
    ELSE CandidateAt(heading, lat, lon, timestamp, g_cost, time_step, landmask,
                     prev_heading, prev_tack, wind, boat_speed,
                     destination_point(lat, lon, heading,
                         (boat_speed * KnotToMps1000 * time_step) \div 10000))

\* the body of "for heading in headings": << cand >>, or << >> on continue
CandidateOf(heading, lat, lon, timestamp, g_cost, polar, time_step, landmask, prev_heading, prev_tack, wind) ==
    CandidateAtSpeed(heading, lat, lon, timestamp, g_cost, time_step, landmask,
                     prev_heading, prev_tack, wind,
                     get_boat_speed(TwaOf(wind[2], heading), wind[1], polar))

\* the candidates list after the loop over headings[lo..hi]
RECURSIVE CandidateLoop(_, _, _, _, _, _, _, _, _, _, _, _, _)
CandidateLoop(headings, lo, hi, lat, lon, timestamp, g_cost, polar, time_step, landmask, prev_heading, prev_tack, wind) ==
    IF lo > hi THEN << >>
    ELSE IF lo = hi
    THEN CandidateOf(headings[lo], lat, lon, timestamp, g_cost, polar, time_step,
                     landmask, prev_heading, prev_tack, wind)
    ELSE CandidateLoop(headings, lo, (lo + hi) \div 2, lat, lon, timestamp,
                       g_cost, polar, time_step, landmask, prev_heading,
                       prev_tack, wind)
         \o CandidateLoop(headings, (lo + hi) \div 2 + 1, hi, lat, lon, timestamp,
                          g_cost, polar, time_step, landmask, prev_heading,
                          prev_tack, wind)

\* lines 151-207: the candidates of the headings, in their order
Candidates(headings, lat, lon, timestamp, g_cost, polar, time_step, landmask, prev_heading, prev_tack, wind) ==
    CandidateLoop(headings, 1, Len(headings), lat, lon, timestamp, g_cost, polar,
                  time_step, landmask, prev_heading, prev_tack, wind)

\* line 218: candidate i sorts before candidate j by (rank, -boat_speed);
\* the sort is stable, so equal keys keep the order of the list
SortsBefore(candidates, rank, i, j) ==
    \/ rank[i] < rank[j]
    \/ /\ rank[i] = rank[j]
       /\ \/ candidates[i].boat_speed > candidates[j].boat_speed
          \/ /\ candidates[i].boat_speed = candidates[j].boat_speed
             /\ i < j

\* the list sorted, given the rank of every candidate
SortedBy(candidates, rank) ==
    [k \in 1..Len(candidates) |->
        candidates[CHOOSE i \in 1..Len(candidates) :
                      Cardinality({j \in 1..Len(candidates) :
                                      SortsBefore(candidates, rank, j, i)}) = k - 1]]

\* A variant of BeamSort without the sort of line 218: the candidates stay
\* in the order of their headings
BeamUnsorted(candidates, goal_lat, goal_lon) == candidates

\* lines 214-218
BeamSort(candidates, goal_lat, goal_lon) ==
    SortedBy(candidates,
             [i \in 1..Len(candidates) |->
                 haversine(candidates[i].lat, candidates[i].lon, goal_lat, goal_lon)])

\* line 219: candidates[:beam_width]
Truncate(sorted, beam_width) == SubSeq(sorted, 1, Min2(beam_width, Len(sorted)))

\* lines 209-223
BeamPrune(candidates, goal_lat, goal_lon, beam_width) ==
    IF candidates = << >> THEN << >>
    ELSE Truncate(BeamSort(candidates, goal_lat, goal_lon), beam_width)

expand_waypoint(lat, lon, timestamp, g_cost, polar, goal_lat, goal_lon, time_step, landmask, prev_heading, prev_tack, beam_width, wind) ==
    BeamPrune(Candidates(generate_candidate_headings(lat, lon, timestamp,
                             goal_lat, goal_lon, wind[1], wind[2], polar),
                         lat, lon, timestamp, g_cost, polar, time_step,
                         landmask, prev_heading, prev_tack, wind),
              goal_lat, goal_lon, beam_width)

\* ------------------------------------------------------------------------
\* Source/routeur.py: calculate_route_astar_fixed, the parts of one call
\* ------------------------------------------------------------------------

\* the start dictionary, given its h_cost
StartWith(a, h) ==
    [lat |-> a.start_lat,
     lon |-> a.start_lon,
     timestamp |-> a.departure,
     heading |-> None,
     boat_speed |-> 0,
     wind_speed |-> None,
     wind_direction |-> None,
     twa |-> None,
     tack |-> None,
     maneuver |-> "None",
     g_cost |-> 0,
     parent |-> << >>,
     h_cost |-> h,
     f_cost |-> 0 + h]

\* lines 261-279
StartNode(a) ==
    StartWith(a, compute_heuristic_admissible(a.start_lat, a.start_lon,
                     a.goal_lat, a.goal_lon, get_max_speed(a.polar.speed_matrix)))

\* A variant of HeapTop for a heap of (f_cost, -counter, node) tuples: of
\* the entries of least f_cost, the one pushed last comes out first.
HeapTopTiesNewest(heap) ==
    CHOOSE e \in heap :
        \A o \in heap : e.f_cost < o.f_cost
                        \/ (e.f_cost = o.f_cost /\ e.counter >= o.counter)

\* heapq.heappop(open_set): the least (f_cost, counter, node) tuple; the
\* counters differ, so two nodes are never compared
HeapTop(heap) ==
    CHOOSE e \in heap :
        \A o \in heap : e.f_cost < o.f_cost
                        \/ (e.f_cost = o.f_cost /\ e.counter <= o.counter)

\* the key of a waypoint in all_waypoints
WaypointKey(n) == << n.lat, n.lon, n.timestamp >>

\* table[key] = value
TablePut(table, key, value) ==
    [k \in (DOMAIN table) \cup {key} |-> IF k = key THEN value ELSE table[k]]

\* A variant of PathBack whose loop tests c["parent"] is None before
\* path.append(c): the start node is left out
RECURSIVE PathBackWithoutStart(_, _)
PathBackWithoutStart(c, table) ==
    IF c.parent = << >> THEN << >>
    ELSE IF c.parent \in DOMAIN table
         THEN << c >> \o PathBackWithoutStart(table[c.parent], table)
         ELSE << c >>

\* the loop "while c is not None" that collects the path from the popped
\* node back along the parent keys; the list before path.reverse()
RECURSIVE PathBack(_, _)
PathBack(c, table) ==
    IF c.parent = << >> THEN << c >>
    ELSE IF c.parent \in DOMAIN table
         THEN << c >> \o PathBack(table[c.parent], table)
         ELSE << c >>

\* A variant of Reverse for a reconstruction without path.reverse()
Unreversed(s) == s

Reverse(s) == [i \in 1..Len(s) |-> s[Len(s) + 1 - i]]

\* lines 330-337: a candidate with its h_cost, its f_cost and its parent
CompletedWith(cand, cur, h) ==
    [lat |-> cand.lat,
     lon |-> cand.lon,
     timestamp |-> cand.timestamp,
     heading |-> cand.heading,
     boat_speed |-> cand.boat_speed,
     wind_speed |-> cand.wind_speed,
     wind_direction |-> cand.wind_direction,
     twa |-> cand.twa,
     tack |-> cand.tack,
     maneuver |-> cand.maneuver,
     g_cost |-> cand.g_cost,
     parent |-> << cur.lat, cur.lon, cur.timestamp >>,
     h_cost |-> h,
     f_cost |-> cand.g_cost + h]

Completed(cand, cur, a, max_speed) ==
    CompletedWith(cand, cur,
                  compute_heuristic_admissible(cand.lat, cand.lon, a.goal_lat,
                                               a.goal_lon, max_speed))

\* the candidates of one expansion, completed, in the order of the list
CompletedAll(candidates, cur, a) ==
    [k \in 1..Len(candidates) |->
        Completed(candidates[k], cur, a, get_max_speed(a.polar.speed_matrix))]

\* lines 339-340: the heap after every heappush (the k-th candidate gets
\* the counter's value plus k - 1)
PushAll(heap, count, nodes) ==
    heap \cup {[f_cost |-> nodes[k].f_cost, counter |-> count + (k - 1),
                node |-> nodes[k]] : k \in 1..Len(nodes)}

\* the last index of nodes stored under key
LastWithKey(nodes, key) ==
    CHOOSE k \in 1..Len(nodes) :
        /\ WaypointKey(nodes[k]) = key
        /\ \A j \in (k + 1)..Len(nodes) : WaypointKey(nodes[j]) # key

\* A variant of StoreAll for a loop without all_waypoints[cand_key] = cand
StoreNone(table, nodes) == table

\* lines 335-336: the table after every all_waypoints[cand_key] = cand; a
\* later candidate replaces an earlier entry with the same key
StoreAll(table, nodes) ==
    [key \in (DOMAIN table) \cup {WaypointKey(nodes[k]) : k \in 1..Len(nodes)} |->
        IF \E k \in 1..Len(nodes) : WaypointKey(nodes[k]) = key
        THEN nodes[LastWithKey(nodes, key)]
        ELSE table[key]]

\* ------------------------------------------------------------------------
\* The calls that are checked
\* ------------------------------------------------------------------------

\* the largest max_iterations that is tried
MaxIterations == 5

\* the values of max_iterations that are tried
IterationLimits == {0, 1, 3, MaxIterations}

\* a polar of five angles and four wind speeds (0, 6, 12 and 20 kn)
PolarCruiser ==
    [twa_array |-> << 0, 45, 90, 135, 180 >>,
     tws_array |-> << 0, 60, 120, 200 >>,
     speed_matrix |-> << << 0, 0, 0, 0 >>,
                         << 0, 45, 62, 68 >>,
                         << 0, 60, 80, 90 >>,
                         << 0, 50, 75, 88 >>,
                         << 0, 35, 60, 75 >> >>]

\* landmask=None
NoLandmask ==
    [present |-> FALSE, dataset |-> FALSE, top |-> 0, left |-> 0, res |-> 1,
     nrows |-> 0, ncols |-> 0, land |-> {}, sea_value |-> 0, land_value |-> 255]

\* a LandMask whose raster could not be opened (dataset is None)
UnloadedLandmask ==
    [present |-> TRUE, dataset |-> FALSE, top |-> 0, left |-> 0, res |-> 1,
     nrows |-> 0, ncols |-> 0, land |-> {}, sea_value |-> 0, land_value |-> 255]

\* a 3 km raster of 20 x 30 cells with an island east of the meridian
IslandLandmask ==
    [present |-> TRUE, dataset |-> TRUE, top |-> 150, left |-> -450, res |-> 30,
     nrows |-> 20, ncols |-> 30,
     land |-> {<< r, c >> : r \in 8..13, c \in 16..19},
     sea_value |-> 0, land_value |-> 255]

\* The name meteo_client is bound nowhere in routeur.py.  A client is a
\* record [bound, winds, fails]: bound is FALSE when the name is not
\* defined; a bound client answers get_wind with any pair of winds, or,
\* when fails, by raising.
UnboundClient == [bound |-> FALSE, winds |-> {}, fails |-> FALSE]

\* 12 kn from the east
SteadyClient == [bound |-> TRUE, winds |-> {<< 120, 90 >>}, fails |-> FALSE]

\* 12 kn from the east or from the west
ShiftyClient ==
    [bound |-> TRUE, winds |-> {<< 120, 90 >>, << 120, 270 >>}, fails |-> FALSE]

\* 4 kn or exactly 6 kn from the north-east, or an error
LightClient == [bound |-> TRUE, winds |-> {<< 40, 60 >>, << 60, 60 >>}, fails |-> TRUE]

\* a polar that sails only close to a beam reach: 6 kn at 90 degrees, 0.4 kn
\* at 80 degrees, in any wind of 5 kn or more
PolarReach ==
    [twa_array |-> << 0, 79, 80, 90, 100, 180 >>,
     tws_array |-> << 0, 50 >>,
     speed_matrix |-> << << 0, 0 >>,
                         << 0, 0 >>,
                         << 0, 4 >>,
                         << 0, 60 >>,
                         << 0, 0 >>,
                         << 0, 0 >> >>]

\* 8 kn or 5.5 kn from the east, 8 kn from the north or from the south
VeeringClient ==
    [bound |-> TRUE,
     winds |-> {<< 80, 90 >>, << 55, 90 >>, << 80, 0 >>, << 80, 180 >>},
     fails |-> FALSE]

\* no wind at all: 0 kn, which uv_to_wind_dir_from reports from 270 degrees
CalmClient == [bound |-> TRUE, winds |-> {<< 0, 270 >>}, fails |-> FALSE]

\* the polar PolarCruiser without its column of 0 kn of wind: the wind axis
\* begins at 6 kn
PolarFromSixKnots ==
    [twa_array |-> << 0, 45, 90, 135, 180 >>,
     tws_array |-> << 60, 120, 200 >>,
     speed_matrix |-> << << 0, 0, 0 >>,
                         << 45, 62, 68 >>,
                         << 60, 80, 90 >>,
                         << 50, 75, 88 >>,
                         << 35, 60, 75 >> >>]

\* a forecast of three dates on a grid of 3 x 3 points whose latitudes
\* decrease: 34.5 km from south to north, 10.5 km from west to east
ForecastGrib ==
    << [valid_date |-> 7200, lats |-> << 50, -150, -295 >>, lons |-> << -5, 0, 100 >>,
        u10 |-> << << -400, -300, -200 >>, << -500, -400, -300 >>, << -600, -500, -450 >> >>,
        v10 |-> << << 100, 0, -100 >>, << 200, 100, 0 >>, << 300, 150, 50 >> >>],
       [valid_date |-> 10800, lats |-> << 50, -150, -295 >>, lons |-> << -5, 0, 100 >>,
        u10 |-> << << -200, -100, 0 >>, << -300, -250, -100 >>, << -400, -300, -200 >> >>,
        v10 |-> << << 300, 200, 100 >>, << 400, 300, 200 >>, << 500, 350, 250 >> >>],
       [valid_date |-> 18000, lats |-> << 50, -150, -295 >>, lons |-> << -5, 0, 100 >>,
        u10 |-> << << 100, 200, 300 >>, << 0, 50, 200 >>, << -100, 0, 100 >> >>,
        v10 |-> << << 300, 300, 300 >>, << 250, 300, 350 >>, << 200, 300, 400 >> >>] >>

Scenario(start, goal, landmask, client, polar, time_step, arrival_threshold, beam_width) ==
    [start |-> start, goal |-> goal, landmask |-> landmask, client |-> client,
     polar |-> polar, time_step |-> time_step,
     arrival_threshold |-> arrival_threshold, beam_width |-> beam_width]

Scenarios ==
    { Scenario(<< -300, 0 >>, << 0, 0 >>, NoLandmask, ShiftyClient,
               PolarCruiser, 3600, 8000, 3),
      Scenario(<< -290, 0 >>, << 0, 0 >>, IslandLandmask, SteadyClient,
               PolarCruiser, 3600, 15000, DEFAULT_BEAM_WIDTH),
      Scenario(<< -200, 0 >>, << 0, 0 >>, NoLandmask, UnboundClient,
               PolarCruiser, 3600, 15000, DEFAULT_BEAM_WIDTH),
      Scenario(<< -200, 0 >>, << 0, 0 >>, UnloadedLandmask, LightClient,
               PolarCruiser, 3600, 15000, 3),
      Scenario(<< -50, 0 >>, << 0, 0 >>, IslandLandmask, UnboundClient,
               PolarCruiser, 3600, 8000, DEFAULT_BEAM_WIDTH),
      Scenario(<< -200, 60 >>, << 0, 0 >>, IslandLandmask, SteadyClient,
               PolarCruiser, 3600, 8000, DEFAULT_BEAM_WIDTH),
      Scenario(<< -300, 0 >>, << -120, 60 >>, IslandLandmask, SteadyClient,
               PolarCruiser, 3600, 8000, DEFAULT_BEAM_WIDTH),
      Scenario(<< 0, 0 >>, << 0, -7 >>, NoLandmask, VeeringClient,
               PolarReach, 240, 185, DEFAULT_BEAM_WIDTH),
      Scenario(<< -200, 0 >>, << 0, 0 >>, NoLandmask, CalmClient,
               PolarCruiser, 3600, 8000, DEFAULT_BEAM_WIDTH),
      Scenario(<< -200, 0 >>, << 0, 0 >>, NoLandmask, CalmClient,
               PolarFromSixKnots, 3600, 8000, DEFAULT_BEAM_WIDTH) }

\* the arguments of the call for a scenario
ArgsOf(sc, max_iterations) ==
    [start_lat |-> sc.start[1], start_lon |-> sc.start[2],
     goal_lat |-> sc.goal[1], goal_lon |-> sc.goal[2],
     departure |-> 7200,
     polar |-> sc.polar,
     grib_fields |-> ForecastGrib,
     time_step |-> sc.time_step,
     landmask |-> sc.landmask,
     max_iterations |-> max_iterations,
     arrival_threshold |-> sc.arrival_threshold,
     dlat |-> DEFAULT_DLAT, dlon |-> DEFAULT_DLON,
     beam_width |-> sc.beam_width]

\* ------------------------------------------------------------------------
\* State
\* ------------------------------------------------------------------------

VARIABLES
    args,            \* the arguments of calculate_route_astar_fixed
    meteo_client,    \* what the global name meteo_client is bound to
    pc,              \* "call", "loop" (at the while test) or "done"
    open_set,        \* the heap, a set of [f_cost, counter, node]
    counter,
    visited_best_g,  \* state key -> best g
    all_waypoints,   \* (lat, lon, timestamp) -> node
    iteration,
    current,         \* << >> while the local is unbound, else << node >>
    returned,        \* "", "path", "None", or the name of the exception raised
    path,            \* the list returned
    popped,          \* history: for every heappop, (f_cost, counter, state
                     \* key, g_cost, fate of the popped node)
    wind_calls       \* history: the number of calls of get_wind

vars == << args, meteo_client, pc, open_set, counter, visited_best_g,
           all_waypoints, iteration, current, returned, path, popped,
           wind_calls >>

Init ==
    /\ \E sc \in Scenarios, m \in IterationLimits :
          /\ args = ArgsOf(sc, m)
          /\ meteo_client = sc.client
    /\ pc = "call"
    /\ open_set = {}
    /\ counter = 0
    /\ visited_best_g = << >>
    /\ all_waypoints = << >>
    /\ iteration = 0
    /\ current = << >>
    /\ returned = ""
    /\ path = << >>
    /\ popped = << >>
    /\ wind_calls = 0

\* return None or raise: nothing else changes
Finish(how) ==
    /\ pc' = "done"
    /\ returned' = how

\* lines 253-256
StartOnLand ==
    /\ pc = "call"
    /\ args.landmask.present
    /\ ~is_sea(args.landmask, args.start_lat, args.start_lon)
    /\ Finish("None")
    /\ UNCHANGED << args, meteo_client, open_set, counter, visited_best_g,
                    all_waypoints, iteration, current, path, popped, wind_calls >>

\* lines 257-259
GoalOnLand ==
    /\ pc = "call"
    /\ args.landmask.present
    /\ is_sea(args.landmask, args.start_lat, args.start_lon)
    /\ ~is_sea(args.landmask, args.goal_lat, args.goal_lon)
    /\ Finish("None")
    /\ UNCHANGED << args, meteo_client, open_set, counter, visited_best_g,
                    all_waypoints, iteration, current, path, popped, wind_calls >>

\* lines 281 and 285: the heap and the table hold the start node
Begin(start) ==
    /\ open_set' = {[f_cost |-> start.f_cost, counter |-> 0, node |-> start]}
    /\ all_waypoints' = TablePut(<< >>, WaypointKey(start), start)

\* A variant of Initialize without the tests of lines 253-259
InitializeUnchecked ==
    /\ pc = "call"
    /\ Begin(StartNode(args))
    /\ counter' = 1
    /\ visited_best_g' = << >>
    /\ iteration' = 0
    /\ pc' = "loop"
    /\ UNCHANGED << args, meteo_client, current, returned, path, popped, wind_calls >>

\* lines 261-287
Initialize ==
    /\ pc = "call"
    /\ args.landmask.present =>
          /\ is_sea(args.landmask, args.start_lat, args.start_lon)
          /\ is_sea(args.landmask, args.goal_lat, args.goal_lon)
    /\ Begin(StartNode(args))
    /\ counter' = 1
    /\ visited_best_g' = << >>
    /\ iteration' = 0
    /\ pc' = "loop"
    /\ UNCHANGED << args, meteo_client, current, returned, path, popped, wind_calls >>

\* the while test of line 288
LoopTest == open_set # {} /\ iteration < args.max_iterations

\* the node that line 290 pops, its distance to the goal and its state key
Top == HeapTop(open_set)

TopDist == haversine(Top.node.lat, Top.node.lon, args.goal_lat, args.goal_lon)

TopKey ==
    state_key(Top.node.lat, Top.node.lon, Top.node.timestamp, args.departure,
              args.dlat, args.dlon, args.time_step)

\* A variant of Dominated whose test is best_g < current["g_cost"]
DominatedIfStrictlyWorse ==
    /\ TopKey \in DOMAIN visited_best_g
    /\ visited_best_g[TopKey] < Top.node.g_cost

\* line 312: best_g is not None and best_g <= current["g_cost"]
Dominated ==
    /\ TopKey \in DOMAIN visited_best_g
    /\ visited_best_g[TopKey] <= Top.node.g_cost

\* the branch that the iteration takes with the popped node: the return
\* of line 306, the continue of line 313, or the expansion
Fate ==
    IF TopDist < args.arrival_threshold THEN "arrival"
    ELSE IF Dominated THEN "dominated"
    ELSE "expanded"

\* lines 289-290, common to every iteration
Pop ==
    /\ pc = "loop"
    /\ LoopTest
    /\ iteration' = iteration + 1
    /\ current' = << Top.node >>
    /\ popped' = Append(popped, << Top.f_cost, Top.counter, TopKey, Top.node.g_cost, Fate >>)

\* lines 296-306: the popped node is within the threshold
Arrive ==
    /\ Pop
    /\ TopDist < args.arrival_threshold
    /\ path' = Reverse(PathBack(Top.node, all_waypoints))
    /\ Finish("path")
    /\ open_set' = open_set \ {Top}
    /\ UNCHANGED << args, meteo_client, counter, visited_best_g, all_waypoints,
                    wind_calls >>

\* lines 308-313: the popped node is dominated, continue
Discard ==
    /\ Pop
    /\ ~(TopDist < args.arrival_threshold)
    /\ Dominated
    /\ open_set' = open_set \ {Top}
    /\ UNCHANGED << args, meteo_client, pc, counter, visited_best_g,
                    all_waypoints, returned, path, wind_calls >>

\* lines 329-340: the candidates are stored and pushed
Push(nodes) ==
    /\ open_set' = PushAll(open_set \ {Top}, counter, nodes)
    /\ counter' = counter + Len(nodes)
    /\ all_waypoints' = StoreAll(all_waypoints, nodes)

\* lines 317-327: the expansion of the popped node cur
ExpandNode(cur, wind) ==
    Push(CompletedAll(expand_waypoint(cur.lat, cur.lon, cur.timestamp, cur.g_cost,
                                      args.polar, args.goal_lat, args.goal_lon,
                                      args.time_step, args.landmask, cur.heading,
                                      cur.tack, args.beam_width, wind),
                      cur, args))

\* lines 314-340 with expand_waypoint: get_wind answers wind
Expand ==
    /\ Pop
    /\ ~(TopDist < args.arrival_threshold)
    /\ ~Dominated
    /\ meteo_client.bound
    /\ \E wind \in meteo_client.winds : ExpandNode(Top.node, wind)
    /\ visited_best_g' = TablePut(visited_best_g, TopKey, Top.node.g_cost)
    /\ wind_calls' = wind_calls + 1
    /\ UNCHANGED << args, meteo_client, pc, returned, path >>

\* lines 314 and 154: the name meteo_client is not defined
ExpandNameError ==
    /\ Pop
    /\ ~(TopDist < args.arrival_threshold)
    /\ ~Dominated
    /\ ~meteo_client.bound
    /\ visited_best_g' = TablePut(visited_best_g, TopKey, Top.node.g_cost)
    /\ open_set' = open_set \ {Top}
    /\ Finish("NameError")
    /\ UNCHANGED << args, meteo_client, counter, all_waypoints, path, wind_calls >>

\* lines 314 and 154: get_wind raises
ExpandWindError ==
    /\ Pop
    /\ ~(TopDist < args.arrival_threshold)
    /\ ~Dominated
    /\ meteo_client.bound
    /\ meteo_client.fails
    /\ visited_best_g' = TablePut(visited_best_g, TopKey, Top.node.g_cost)
    /\ open_set' = open_set \ {Top}
    /\ wind_calls' = wind_calls + 1
    /\ Finish("ValueError")
    /\ UNCHANGED << args, meteo_client, counter, all_waypoints, path >>

\* lines 342-347 when the loop ended with current bound, or an empty queue
GiveUp ==
    /\ pc = "loop"
    /\ ~LoopTest
    /\ open_set # {} => current # << >>
    /\ Finish("None")
    /\ UNCHANGED << args, meteo_client, open_set, counter, visited_best_g,
                    all_waypoints, iteration, current, path, popped, wind_calls >>

\* line 344: "last = current" when the loop body never ran
GiveUpUnbound ==
    /\ pc = "loop"
    /\ ~LoopTest
    /\ open_set # {}
    /\ current = << >>
    /\ Finish("UnboundLocalError")
    /\ UNCHANGED << args, meteo_client, open_set, counter, visited_best_g,
                    all_waypoints, iteration, current, path, popped, wind_calls >>

Next ==
    \/ StartOnLand
    \/ GoalOnLand
    \/ Initialize
    \/ Arrive
    \/ Discard
    \/ Expand
    \/ ExpandNameError
    \/ ExpandWindError
    \/ GiveUp
    \/ GiveUpUnbound

Spec == Init /\ [][Next]_vars


\* ------------------------------------------------------------------------
\* Properties of calculate_route_astar_fixed
\* ------------------------------------------------------------------------

\* the call has returned a path
ReturnedPath == pc = "done" /\ returned = "path"

\* every node the search still holds: the table, the heap, the popped node
\* and the returned path
Nodes ==
    {all_waypoints[k] : k \in DOMAIN all_waypoints}
    \cup {e.node : e \in open_set}
    \cup {current[k] : k \in DOMAIN current}
    \cup {path[k] : k \in DOMAIN path}

\* C1: whenever a path is returned, the distance from its last waypoint to
\* the goal is strictly less than arrival_threshold.
C1_LastWithinThreshold ==
    ReturnedPath =>
        /\ path # << >>
        /\ haversine(path[Len(path)].lat, path[Len(path)].lon,
                     args.goal_lat, args.goal_lon) < args.arrival_threshold

\* a path of three waypoints or more has been returned
C1_Witness == ReturnedPath /\ Len(path) >= 3

\* C2: a returned path is in departure-to-arrival order and is a complete
\* parent chain: its first element is the start node (no parent, the start
\* position, the departure time, g_cost 0), no other element is without a
\* parent, and the parent reference of every later element is the key of the
\* element before it.
C2_CompleteParentChain ==
    ReturnedPath =>
        /\ path # << >>
        /\ path[1].parent = << >>
        /\ path[1].lat = args.start_lat
        /\ path[1].lon = args.start_lon
        /\ path[1].timestamp = args.departure
        /\ path[1].g_cost = 0
        /\ \A i \in 2..Len(path) :
              /\ path[i].parent # << >>
              /\ path[i].parent = WaypointKey(path[i - 1])

\* a path of four waypoints has been returned: the chain has been followed
\* through three parent keys
C2_Witness == ReturnedPath /\ Len(path) = 4

\* C3: with a landmask, every waypoint of a returned path is on sea, every
\* segment between consecutive waypoints passes is_path_clear with 6 samples,
\* and no node in the queue has a segment from its parent that touches land.
C3_PathAndQueueClearOfLand ==
    args.landmask.present =>
        /\ ReturnedPath =>
              /\ \A i \in 1..Len(path) :
                    is_sea(args.landmask, path[i].lat, path[i].lon)
              /\ \A i \in 1..(Len(path) - 1) :
                    is_path_clear(args.landmask, path[i].lat, path[i].lon,
                                  path[i + 1].lat, path[i + 1].lon, 6)
        /\ \A e \in open_set :
              e.node.parent # << >> =>
                  is_path_clear(args.landmask, e.node.parent[1], e.node.parent[2],
                                e.node.lat, e.node.lon, 6)

\* a path of several waypoints has been returned past the island
C3_Witness ==
    /\ ReturnedPath
    /\ args.landmask = IslandLandmask
    /\ Len(path) >= 2

\* C4: the timestamps of consecutive waypoints of a returned path differ by
\* time_step exactly, so the i-th waypoint (from 0) is at departure + i *
\* time_step.
C4_TimestampsStepByTimeStep ==
    ReturnedPath =>
        /\ \A i \in 1..(Len(path) - 1) :
              path[i + 1].timestamp - path[i].timestamp = args.time_step
        /\ \A i \in 1..Len(path) :
              path[i].timestamp = args.departure + (i - 1) * args.time_step

\* a path of several waypoints has been returned with a step of 240 s
C4_Witness == ReturnedPath /\ Len(path) >= 2 /\ args.time_step = 240

\* C5: g_cost is non-decreasing along a returned path, the path being the
\* chain of the table entries found under the parent keys.
C5_GCostNonDecreasing ==
    ReturnedPath =>
        \A i \in 1..(Len(path) - 1) : path[i].g_cost <= path[i + 1].g_cost

\* C6: for every waypoint of a returned path, after the first, whose maneuver
\* is tack or gybe, the tack of the waypoint before it (the table entry under
\* its parent key) and its own tack are non-zero and of opposite signs.
C6_ManeuverChangesTack ==
    ReturnedPath =>
        \A i \in 2..Len(path) :
            path[i].maneuver \in {"tack", "gybe"} =>
                /\ path[i - 1].tack \in {-1, 1}
                /\ path[i].tack \in {-1, 1}
                /\ path[i - 1].tack * path[i].tack < 0

\* C7 as stated: every node of a search, the start node included, has
\* 0 <= twa <= 180 and boat_speed >= 0.5 kn.
C7_EveryNodeSails ==
    \A n \in Nodes :
        /\ 0 <= n.twa /\ n.twa <= 180
        /\ n.boat_speed >= DEFAULT_MIN_BOAT_SPEED_KN

\* C7, amended: every node made by an expansion (every node with a parent)
\* has 0 <= twa <= 180 and boat_speed >= 0.5 kn; the start node, the only
\* node without a parent, has no twa and a boat_speed of 0.
C7_EveryExpandedNodeSails ==
    \A n \in Nodes :
        IF n.parent # << >>
        THEN /\ 0 <= n.twa /\ n.twa <= 180
             /\ n.boat_speed >= DEFAULT_MIN_BOAT_SPEED_KN
        ELSE /\ n.twa = None
             /\ n.boat_speed = 0

\* the start node and nodes made by two expansions or more are held
C7_Witness ==
    /\ \E n \in Nodes : n.parent = << >>
    /\ \E n \in Nodes : n.parent # << >> /\ n.timestamp >= args.departure + 2 * args.time_step

\* C8: over a whole search the nodes are popped in non-decreasing f_cost
\* order, and nodes of equal f_cost in the order of their insertion.
C8_PopsInOrder ==
    \A i \in DOMAIN popped : \A j \in DOMAIN popped :
        i < j =>
            /\ popped[i][1] <= popped[j][1]
            /\ popped[i][1] = popped[j][1] => popped[i][2] < popped[j][2]

\* four nodes or more have been popped, two of them with the same f_cost and
\* two with different f_costs
C8_Witness ==
    /\ Len(popped) >= 4
    /\ \E i \in DOMAIN popped : \E j \in DOMAIN popped :
          i < j /\ popped[i][1] = popped[j][1]
    /\ \E i \in DOMAIN popped : \E j \in DOMAIN popped :
          i < j /\ popped[i][1] < popped[j][1]

\* C9: every search ends, after at most max_iterations pops, by returning a
\* path or the no-route result, for any max_iterations >= 0.
C9_ReturnsPathOrNoRoute ==
    /\ Len(popped) <= args.max_iterations
    /\ pc = "done" => returned \in {"path", "None"}

\* C10: with a landmask and a start point or a goal point that is not sea,
\* the search returns the failure before its loop: no node is popped, no wind
\* is sampled, no successor is generated.
C10_LandEndpointFailsBeforeLoop ==
    (/\ args.landmask.present
     /\ \/ ~is_sea(args.landmask, args.start_lat, args.start_lon)
        \/ ~is_sea(args.landmask, args.goal_lat, args.goal_lon)) =>
        /\ pc # "loop"
        /\ pc = "done" => returned = "None"
        /\ popped = << >>
        /\ iteration = 0
        /\ wind_calls = 0
        /\ open_set = {}
        /\ all_waypoints = << >>

\* the search has returned for a goal on land, the start being on sea
C10_Witness ==
    /\ pc = "done"
    /\ args.landmask.present
    /\ is_sea(args.landmask, args.start_lat, args.start_lon)
    /\ ~is_sea(args.landmask, args.goal_lat, args.goal_lon)

\* the forecast of the call has no wind at (lat, lon): the point is outside
\* the extent of its grid
OutsideForecast(lat, lon) ==
    wind_uv_at(args.grib_fields, lat, lon, args.departure) = Nothing

\* C11: when the start or the goal is outside the extent of the wind grid,
\* the call fails before the loop begins: it never reaches the loop, pushes
\* no node, pops none, samples no wind, and what it returns is a failure.
C11_OutsideForecastFailsBeforeLoop ==
    (OutsideForecast(args.start_lat, args.start_lon)
     \/ OutsideForecast(args.goal_lat, args.goal_lon))
    => /\ pc # "loop"
       /\ open_set = {}
       /\ popped = << >>
       /\ wind_calls = 0
       /\ pc = "done" => returned = "None"

\* C12: a wind sample that fails because the popped node is outside the grid
\* is never propagated out of the search: the node is a dead end and the
\* loop goes on, so the call never ends by raising the error of the sample.
C12_OutOfGridNeverLeavesTheSearch ==
    pc = "done" => returned # "ValueError"

\* the exit by which a call that returned None left: the test of line 254,
\* the test of line 257, or the end of the loop with an empty or a
\* non-empty queue
FailureKind ==
    IF args.landmask.present /\ ~is_sea(args.landmask, args.start_lat, args.start_lon)
    THEN "StartOnLand"
    ELSE IF args.landmask.present
            /\ ~is_sea(args.landmask, args.goal_lat, args.goal_lon)
    THEN "GoalOnLand"
    ELSE IF open_set = {} THEN "QueueExhausted"
    ELSE "IterationLimitReached"

\* C13: a failed search reports a distinct reason for each kind of failure:
\* what the call returns tells a start on land from a goal on land, and the
\* iteration limit from an exhausted queue.
C13_FailureReportsItsKind ==
    (pc = "done" /\ returned # "path"
     /\ returned \notin {"NameError", "ValueError", "UnboundLocalError"})
    => returned = FailureKind

\* the penalty that goes with the maneuver recorded on a node
ManeuverCost(maneuver) ==
    IF maneuver = "tack" THEN PENALTY_TACK
    ELSE IF maneuver = "gybe" THEN PENALTY_GYBE
    ELSE PENALTY_HEADING_CHANGE

\* the composite cost of the expansion that made node c: its time step, its
\* maneuver and the light air of the wind it records
StepCost(c) == args.time_step + ManeuverCost(c.maneuver) + LowWindPenalty(c.wind_speed)

\* the composite cost of the expansions that lead from p[i] to the last node
\* of the chain p
RECURSIVE CostAlong(_, _)
CostAlong(p, i) == IF i >= Len(p) THEN 0 ELSE StepCost(p[i + 1]) + CostAlong(p, i + 1)

\* the nodes that line 296 accepts as the arrival when they are popped
Arrivals ==
    {n \in Nodes : haversine(n.lat, n.lon, args.goal_lat, args.goal_lon)
                   < args.arrival_threshold}

\* the chain of expansions from the start node to node a
ChainTo(a) == Reverse(PathBack(a, all_waypoints))

DeadAir ==
    /\ meteo_client.bound
    /\ ~meteo_client.fails
    /\ meteo_client.winds # {}
    /\ \A w \in meteo_client.winds : w[1] = 0

\* the search of a call in dead air ended with the start node as its only
\* node, an empty queue and no route
Becalmed ==
    /\ \A n \in Nodes : n.parent = << >>
    /\ pc = "done" => (returned = "None" /\ open_set = {})

StalledAtZero(polar) ==
    \A twa \in 0..180 : get_boat_speed(twa, 0, polar) < DEFAULT_MIN_BOAT_SPEED_KN

C18_DominanceAtPop ==
    /\ [](\A i \in DOMAIN popped :
             popped[i][5] # "arrival"
             => (popped[i][5] = "expanded"
                 <=> ~\E j \in 1..(i - 1) :
                        /\ popped[j][5] = "expanded"
                        /\ popped[j][3] = popped[i][3]
                        /\ popped[j][4] <= popped[i][4]))
    /\ [][(Len(popped') = Len(popped) + 1 /\ popped'[Len(popped')][5] = "dominated")
          => /\ visited_best_g' = visited_best_g
             /\ all_waypoints' = all_waypoints
             /\ counter' = counter
             /\ open_set' \subseteq open_set
             /\ Cardinality(open_set') = Cardinality(open_set) - 1
             /\ wind_calls' = wind_calls
             /\ pc' = "loop"]_vars

\* a popped node was discarded: a node expanded before it has its state key
\* and a g_cost that is not larger
C18_Witness ==
    \E i \in DOMAIN popped :
        /\ popped[i][5] = "dominated"
        /\ \E j \in 1..(i - 1) :
              /\ popped[j][5] = "expanded"
              /\ popped[j][3] = popped[i][3]
              /\ popped[j][4] <= popped[i][4]

\* C19: every successor n' that an expansion of node n generates and pushes
\* has timestamp(n') = timestamp(n) + time_step and g_cost(n') = g_cost(n) +
\* time_step + maneuver penalty + light-air penalty, where the light-air
\* penalty is 300 s exactly when the wind sampled at n (recorded on n') is
\* strictly below 6 kn, else 0, and the maneuver penalty is 0, 120 or 180 s:
\* 180 for a tack, 120 for a gybe, 0 without maneuver.
C19_StepCost ==
    [][iteration' = iteration + 1
       => \A e \in open_set' \ open_set :
             /\ e.node.parent = WaypointKey(current'[1])
             /\ e.node.timestamp = current'[1].timestamp + args.time_step
             /\ \E man \in {0, 120, 180}, light \in {0, 300} :
                   /\ light = 300 <=> e.node.wind_speed < 60
                   /\ man = 180 <=> e.node.maneuver = "tack"
                   /\ man = 120 <=> e.node.maneuver = "gybe"
                   /\ e.node.g_cost = current'[1].g_cost + args.time_step + man + light]_vars

\* the queue holds a successor made in a wind of exactly 6 kn, whose g_cost
\* is that of its parent plus the time step, without the light-air penalty
C19_Witness ==
    \E e \in open_set :
        /\ e.node.parent \in DOMAIN all_waypoints
        /\ e.node.wind_speed = 60
        /\ e.node.maneuver = "None"
        /\ e.node.g_cost = all_waypoints[e.node.parent].g_cost + args.time_step

\* C20 (as claimed): for every successor pushed by the expansion of a node
\* that has a heading: when the tack of the parent and the tack of the
\* successor are both non-zero and differ, the maneuver is a tack with 180 s
\* if the average of the twa stored on the parent and the twa of the
\* successor is below 90 degrees, else a gybe with 120 s; when the tacks are
\* equal or either is 0 there is no maneuver and no penalty.
C20_ManeuverFromStoredTwa ==
    [][(iteration' = iteration + 1 /\ current'[1].heading # None)
       => \A e \in open_set' \ open_set :
             IF current'[1].tack # 0 /\ e.node.tack # 0
                /\ current'[1].tack # e.node.tack
             THEN IF current'[1].twa + e.node.twa < 180
                  THEN /\ e.node.maneuver = "tack"
                       /\ e.node.g_cost = current'[1].g_cost + args.time_step + 180
                                          + (IF e.node.wind_speed < 60 THEN 300 ELSE 0)
                  ELSE /\ e.node.maneuver = "gybe"
                       /\ e.node.g_cost = current'[1].g_cost + args.time_step + 120
                                          + (IF e.node.wind_speed < 60 THEN 300 ELSE 0)
             ELSE /\ e.node.maneuver = "None"
                  /\ e.node.g_cost = current'[1].g_cost + args.time_step
                                     + (IF e.node.wind_speed < 60 THEN 300 ELSE 0)]_vars

\* C20 (amended): the same, with the TWA of the parent taken anew: it is the
\* angle between the heading stored on the parent and the wind sampled for
\* this expansion (the wind the successor records), not the twa stored on
\* the parent, which was taken in the wind of the expansion before.
C20_ManeuverFromParentHeadingInNewWind ==
    [][(iteration' = iteration + 1 /\ current'[1].heading # None)
       => \A e \in open_set' \ open_set :
             IF current'[1].tack # 0 /\ e.node.tack # 0
                /\ current'[1].tack # e.node.tack
             THEN IF Abs(((e.node.wind_direction - current'[1].heading + 540) % 360) - 180)
                     + e.node.twa < 180
                  THEN /\ e.node.maneuver = "tack"
                       /\ e.node.g_cost = current'[1].g_cost + args.time_step + 180
                                          + (IF e.node.wind_speed < 60 THEN 300 ELSE 0)
                  ELSE /\ e.node.maneuver = "gybe"
                       /\ e.node.g_cost = current'[1].g_cost + args.time_step + 120
                                          + (IF e.node.wind_speed < 60 THEN 300 ELSE 0)
             ELSE /\ e.node.maneuver = "None"
                  /\ e.node.g_cost = current'[1].g_cost + args.time_step
                                     + (IF e.node.wind_speed < 60 THEN 300 ELSE 0)]_vars

\* the popped node has just been expanded in a wind that is not the wind it
\* was made in, and one of its successors changes tack with a maneuver that
\* the twa stored on the popped node would classify the other way
C20_Witness ==
    /\ pc = "loop"
    /\ current # << >>
    /\ \E e \in open_set :
          /\ e.node.parent = WaypointKey(current[1])
          /\ current[1].heading # None
          /\ e.node.wind_direction # current[1].wind_direction
          /\ current[1].tack # 0
          /\ e.node.tack # 0
          /\ current[1].tack # e.node.tack
          /\ e.node.maneuver \in {"tack", "gybe"}
          /\ e.node.maneuver = "tack" <=> current[1].twa + e.node.twa >= 180

\* C21: no maneuver is attributed at the first expansion.  The successors of
\* the start node are the nodes one time step after the departure: each has
\* maneuver None and a g_cost of the time step plus the light-air penalty,
\* without any maneuver penalty, whatever its heading and tack.
C21_NoManeuverAtFirstExpansion ==
    \A n \in Nodes :
        n.timestamp = args.departure + args.time_step
        => /\ n.parent = << args.start_lat, args.start_lon, args.departure >>
           /\ n.maneuver = "None"
           /\ n.g_cost = args.time_step + (IF n.wind_speed < 60 THEN 300 ELSE 0)

\* the start node has successors on both tacks
C21_Witness ==
    /\ \E n \in Nodes : n.timestamp = args.departure + args.time_step /\ n.tack = 1
    /\ \E n \in Nodes : n.timestamp = args.departure + args.time_step /\ n.tack = -1

\* the candidates of the expansion of node n in the wind that get_wind
\* answered, before the beam pruning of lines 209-223
Unpruned(n, wind) ==
    Candidates(generate_candidate_headings(n.lat, n.lon, n.timestamp,
                   args.goal_lat, args.goal_lon, wind[1], wind[2], args.polar),
               n.lat, n.lon, n.timestamp, n.g_cost, args.polar, args.time_step,
               args.landmask, n.heading, n.tack, wind)

\* What lines 209-223 leave of the candidates all, given the nodes pushed
\* by the expansion: each pushed node is a candidate, min(beam_width,
\* len(candidates)) of them are pushed, and no discarded candidate sorts
\* before a kept one in the order of line 218
BeamKept(all, pushed, beam_width) ==
    \E kept \in {{i \in 1..Len(all) : \E n \in pushed : n.heading = all[i].heading}} :
    \E rank \in {[i \in 1..Len(all) |->
                    << haversine(all[i].lat, all[i].lon, args.goal_lat, args.goal_lon),
                       all[i].boat_speed >>]} :
       /\ \A n \in pushed :
             \E i \in 1..Len(all) :
                /\ n.heading = all[i].heading
                /\ n.lat = all[i].lat /\ n.lon = all[i].lon
       /\ Cardinality(pushed) = Min2(beam_width, Len(all))
       /\ Cardinality(kept) = Min2(beam_width, Len(all))
       /\ \A k \in kept : \A d \in (1..Len(all)) \ kept :
             \/ rank[k][1] < rank[d][1]
             \/ rank[k][1] = rank[d][1] /\ rank[k][2] >= rank[d][2]

\* C22: beam pruning.  One expansion pushes at most beam_width successors:
\* the first beam_width candidates in the order (distance to the goal
\* ascending, boat speed descending).  Every discarded candidate is at least
\* as far from the goal as every kept one, and at the same distance it is
\* not faster.
C22_BeamKeepsTheNearest ==
    [][(iteration' = iteration + 1 /\ pc' = "loop" /\ counter' >= counter
        /\ popped'[Len(popped')][5] = "expanded")
       => \E wind \in meteo_client.winds :
             /\ \A e \in open_set' \ open_set :
                   /\ e.node.wind_speed = wind[1]
                   /\ e.node.wind_direction = wind[2]
             /\ \E all \in {Unpruned(current'[1], wind)} :
                   BeamKept(all, {e.node : e \in open_set' \ open_set},
                            args.beam_width)]_vars

\* an expansion has just discarded candidates: the popped node had more
\* candidates than beam_width, and beam_width of them are in the heap
C22_Witness ==
    /\ pc = "loop"
    /\ popped # << >>
    /\ popped[Len(popped)][5] = "expanded"
    /\ \E wind \in meteo_client.winds :
          /\ Len(Unpruned(current[1], wind)) > args.beam_width
          /\ Cardinality({e \in open_set :
                            /\ e.counter >= counter - args.beam_width
                            /\ e.node.parent = WaypointKey(current[1])
                            /\ e.node.wind_speed = wind[1]
                            /\ e.node.wind_direction = wind[2]}) = args.beam_width

\* C23: the wind recorded on every successor is the wind of grib_fields,
\* the forecast passed to the search, interpolated at the position and the
\* time of the node that was expanded (the successor's parent).
C23_WindIsTheForecastAtTheParent ==
    \A n \in Nodes :
        n.parent # Nothing
        => << n.wind_speed, n.wind_direction >>
           = get_wind_from_grib(n.parent[1], n.parent[2], n.parent[3],
                                args.grib_fields)

\* C24: every waypoint of a returned path was made by expanding the waypoint
\* before it: from one to the next g_cost grows by the step cost computed
\* when the later one was created, which lies between time_step and
\* time_step + 480 s, also when several nodes share a (lat, lon, timestamp)
\* key.
C24_PathStepsAreExpansions ==
    ReturnedPath =>
        \A i \in 1..(Len(path) - 1) :
            /\ path[i + 1].g_cost - path[i].g_cost = StepCost(path[i + 1])
            /\ path[i + 1].g_cost - path[i].g_cost >= args.time_step
            /\ path[i + 1].g_cost - path[i].g_cost
               <= args.time_step + PENALTY_TACK + PENALTY_LOW_WIND

\* C25: the heuristic is consistent along every generated edge.  For the
\* node n that an iteration expands and every successor n' that it pushes,
\* h(n) <= (g(n') - g(n)) + h(n'), hence f_cost(n') >= f_cost(n); the boat
\* speed of n' does not exceed the largest speed of the polar.
C25_HeuristicConsistent ==
    [][iteration' = iteration + 1
       => \A e \in open_set' \ open_set :
             /\ e.node.boat_speed <= get_max_speed(args.polar.speed_matrix)
             /\ current'[1].h_cost
                <= (e.node.g_cost - current'[1].g_cost) + e.node.h_cost
             /\ e.node.f_cost >= current'[1].f_cost]_vars

\* a node has just been expanded and one of its successors, still queued,
\* is nearer to the goal than it
C25_Witness ==
    /\ pc = "loop"
    /\ popped # << >>
    /\ popped[Len(popped)][5] = "expanded"
    /\ \E e \in open_set :
          /\ e.node.parent = WaypointKey(current[1])
          /\ e.node.g_cost > current[1].g_cost
          /\ e.node.h_cost < current[1].h_cost
          /\ e.node.h_cost > 0

\* C26: the best-g table only improves.  For each state key, the g_costs of
\* the nodes expanded under it are strictly decreasing over the run, and the
\* entry of the key is the g_cost of the last of them, the smallest so far;
\* a key has an entry exactly when a node was expanded under it.
C26_BestGOnlyImproves ==
    /\ DOMAIN visited_best_g
       = {popped[i][3] : i \in {j \in 1..Len(popped) : popped[j][5] = "expanded"}}
    /\ \A i \in 1..Len(popped) :
          popped[i][5] = "expanded"
          => /\ visited_best_g[popped[i][3]] <= popped[i][4]
             /\ \A j \in (i + 1)..Len(popped) :
                   (popped[j][5] = "expanded" /\ popped[j][3] = popped[i][3])
                   => popped[j][4] < popped[i][4]
             /\ (\A j \in (i + 1)..Len(popped) :
                    ~(popped[j][5] = "expanded" /\ popped[j][3] = popped[i][3]))
                => visited_best_g[popped[i][3]] = popped[i][4]

\* two nodes have been expanded under the same state key, the second with
\* the smaller g_cost
C26_Witness ==
    \E i, j \in 1..Len(popped) :
        /\ i < j
        /\ popped[i][5] = "expanded" /\ popped[j][5] = "expanded"
        /\ popped[i][3] = popped[j][3]
        /\ visited_best_g[popped[i][3]] = popped[j][4]
        /\ popped[j][4] < popped[i][4]

\* C27: for every node created, its timestamp is a whole number k of time
\* steps after the departure and k * time_step <= g_cost
\* <= k * (time_step + 480): each expansion adds the time step and at most a
\* tack (180 s) and the light-air penalty (300 s).
C27_GCostWithinStepBounds ==
    \A n \in Nodes :
        /\ n.timestamp >= args.departure
        /\ (n.timestamp - args.departure) % args.time_step = 0
        /\ ((n.timestamp - args.departure) \div args.time_step) * args.time_step
           <= n.g_cost
        /\ n.g_cost
           <= ((n.timestamp - args.departure) \div args.time_step)
              * (args.time_step + PENALTY_TACK + PENALTY_LOW_WIND)

\* a node two steps or more after the departure carries penalties
C27_Witness ==
    \E n \in Nodes :
        /\ n.timestamp >= args.departure + 2 * args.time_step
        /\ n.g_cost > n.timestamp - args.departure
        /\ n.maneuver = "tack"

\* the start is within arrival_threshold of the goal and the call passes
\* the tests of lines 253-259
StartArrives ==
    /\ haversine(args.start_lat, args.start_lon, args.goal_lat, args.goal_lon)
       < args.arrival_threshold
    /\ args.landmask.present =>
          /\ is_sea(args.landmask, args.start_lat, args.start_lon)
          /\ is_sea(args.landmask, args.goal_lat, args.goal_lon)

\* the call has returned the path [start] at its first iteration, by the
\* arrival test, without a wind sample and without an expansion
ReturnedStartAtOnce ==
    /\ returned = "path"
    /\ iteration = 1
    /\ Len(path) = 1
    /\ path[1].lat = args.start_lat /\ path[1].lon = args.start_lon
    /\ path[1].timestamp = args.departure
    /\ path[1].g_cost = 0
    /\ path[1].parent = << >>
    /\ Len(popped) = 1 /\ popped[1][5] = "arrival"
    /\ wind_calls = 0
    /\ visited_best_g = << >>
    /\ counter = 1

\* C28 (as claimed): if the start is within arrival_threshold and passes the
\* land tests, the search returns the one-element path [start], of g_cost 0,
\* at its first iteration, without sampling the wind or expanding a node.
C28_StartWithinThresholdReturnsStart ==
    StartArrives =>
        /\ wind_calls = 0
        /\ iteration <= 1
        /\ pc = "done" => ReturnedStartAtOnce

\* C28 (amended): the same, for a call whose max_iterations is at least 1,
\* so that the loop has a first iteration.
C28_StartWithinThresholdReturnsStartIfLoopRuns ==
    (StartArrives /\ args.max_iterations >= 1) =>
        /\ wind_calls = 0
        /\ iteration <= 1
        /\ pc = "done" => ReturnedStartAtOnce

\* a call whose start is within the threshold, with a land mask and
\* max_iterations >= 1, has returned
C28_Witness ==
    /\ StartArrives
    /\ args.landmask.present
    /\ args.max_iterations >= 1
    /\ pc = "done"
    /\ ReturnedStartAtOnce

\* ------------------------------------------------------------------------
\* wind_uv_at on its own: one call per behaviour.  args holds the arguments
\* of the call, path what it returns (Nothing or << u, v >>), returned tells
\* the two apart; the variables of the search are not used.
\* ------------------------------------------------------------------------

\* the number of dates, latitudes and longitudes that are probed, less one
MaxProbeTimes == 8

MaxProbeLats == 7

MaxProbeLons == 7

\* every half hour from half an hour before the first date of ForecastGrib
ProbeTimes == {5400 + 1800 * k : k \in 0..MaxProbeTimes}

\* every 5 km from 500 m south of the grid of ForecastGrib
ProbeLats == {-300 + 50 * k : k \in 0..MaxProbeLats}

\* every 1.5 km from 500 m west of the grid of ForecastGrib
ProbeLons == {-10 + 15 * k : k \in 0..MaxProbeLons}

\* the variables of the search, unused
NoSearch ==
    /\ meteo_client = UnboundClient
    /\ open_set = {}
    /\ counter = 0
    /\ visited_best_g = << >>
    /\ all_waypoints = << >>
    /\ iteration = 0
    /\ current = << >>
    /\ popped = << >>
    /\ wind_calls = 0

InitWind ==
    /\ \E t \in ProbeTimes, lat \in ProbeLats, lon \in ProbeLons :
          args = [fields |-> ForecastGrib, lat |-> lat, lon |-> lon, timestamp |-> t]
    /\ pc = "wind_uv_at"
    /\ returned = ""
    /\ path = << >>
    /\ NoSearch

\* the call returns (u, v)
WindUvAt ==
    /\ pc = "wind_uv_at"
    /\ wind_uv_at(args.fields, args.lat, args.lon, args.timestamp) # Nothing
    /\ path' = wind_uv_at(args.fields, args.lat, args.lon, args.timestamp)
    /\ pc' = "done"
    /\ returned' = "uv"
    /\ UNCHANGED << args, meteo_client, open_set, counter, visited_best_g,
                    all_waypoints, iteration, current, popped, wind_calls >>

\* the call returns None
WindUvAtNone ==
    /\ pc = "wind_uv_at"
    /\ wind_uv_at(args.fields, args.lat, args.lon, args.timestamp) = Nothing
    /\ path' = Nothing
    /\ pc' = "done"
    /\ returned' = "None"
    /\ UNCHANGED << args, meteo_client, open_set, counter, visited_best_g,
                    all_waypoints, iteration, current, popped, wind_calls >>

NextWind ==
    \/ WindUvAt
    \/ WindUvAtNone

SpecWind == InitWind /\ [][NextWind]_vars

\* x lies between a and b
Within(x, a, b) == Min2(a, b) <= x /\ x <= Max2(a, b)

\* x is (1 - alpha) * x0 + alpha * x1 rounded down, alpha = (t - t0) / (t1 - t0)
Weighted(x, x0, x1, t, t0, t1) ==
    /\ (t1 - t0) * x <= x0 * (t1 - t) + x1 * (t - t0)
    /\ x0 * (t1 - t) + x1 * (t - t0) < (t1 - t0) * (x + 1)

\* the result of the call for a timestamp strictly between the dates of the
\* fields k and k + 1: None when either field has no value at the point,
\* else u and v are each between the values of the two fields, with the
\* weight alpha
InterpolatedBetween(k) ==
    IF FieldUv(args.fields[k], args.lat, args.lon) = Nothing
       \/ FieldUv(args.fields[k + 1], args.lat, args.lon) = Nothing
    THEN path = Nothing
    ELSE /\ path # Nothing
         /\ \A c \in 1..2 :
               /\ Within(path[c], FieldUv(args.fields[k], args.lat, args.lon)[c],
                         FieldUv(args.fields[k + 1], args.lat, args.lon)[c])
               /\ Weighted(path[c], FieldUv(args.fields[k], args.lat, args.lon)[c],
                           FieldUv(args.fields[k + 1], args.lat, args.lon)[c],
                           args.timestamp, args.fields[k].valid_date,
                           args.fields[k + 1].valid_date)

\* C16: wind_uv_at never extrapolates in time.  At or before the date of the
\* first field the result is the spatial interpolation of the first field
\* alone, at or after the date of the last field that of the last field
\* alone, and strictly between the dates of two consecutive fields each of u
\* and v lies between the values of the two fields, with the weight
\* alpha = (t - t0) / (t1 - t0).
C16_NoExtrapolationInTime ==
    pc = "done" =>
        /\ args.timestamp <= args.fields[1].valid_date
           => path = FieldUv(args.fields[1], args.lat, args.lon)
        /\ args.timestamp >= args.fields[Len(args.fields)].valid_date
           => path = FieldUv(args.fields[Len(args.fields)], args.lat, args.lon)
        /\ \A k \in 1..(Len(args.fields) - 1) :
              (args.fields[k].valid_date < args.timestamp
               /\ args.timestamp < args.fields[k + 1].valid_date)
              => InterpolatedBetween(k)

\* a call for a point of the grid half an hour before the first date
\* returned the value of the first field, where prolonging the first two
\* fields backwards would give another value
C16_Witness ==
    /\ pc = "done"
    /\ returned = "uv"
    /\ args.timestamp < args.fields[1].valid_date
    /\ path = FieldUv(args.fields[1], args.lat, args.lon)
    /\ path # FieldUv(args.fields[2], args.lat, args.lon)

\* ------------------------------------------------------------------------
\* LandMask.is_sea and LandMask.is_path_clear on their own: one call per
\* behaviour.  args holds the mask, the name of the method and its
\* arguments; returned is "True", "False" or the exception raised.
\* ------------------------------------------------------------------------

\* the largest n_samples, and the number of latitudes and longitudes of the
\* end points, less one
MaxSamples == 5

MaxMaskLats == 5

MaxMaskLons == 3

\* every 12.5 km from 1 km south of the raster of IslandLandmask
MaskLats == {-460 + 125 * k : k \in 0..MaxMaskLats}

\* every 26 km from 2 km west of the raster of IslandLandmask
MaskLons == {-470 + 260 * k : k \in 0..MaxMaskLons}

InitMask ==
    /\ \E call \in {"is_sea", "is_path_clear"},
          mask \in {IslandLandmask, UnloadedLandmask},
          lat1 \in MaskLats, lon1 \in MaskLons, lat2 \in MaskLats, lon2 \in MaskLons,
          n \in 0..MaxSamples :
          args = [call |-> call, mask |-> mask, lat1 |-> lat1, lon1 |-> lon1,
                  lat2 |-> lat2, lon2 |-> lon2, n_samples |-> n]
    /\ pc = "mask"
    /\ returned = ""
    /\ path = << >>
    /\ NoSearch

\* return of a Python bool
ReturnBool(b) ==
    /\ returned' = (IF b THEN "True" ELSE "False")
    /\ pc' = "done"
    /\ UNCHANGED << args, meteo_client, open_set, counter, visited_best_g,
                    all_waypoints, iteration, current, path, popped, wind_calls >>

\* landmask.is_sea(lat1, lon1)
IsSea ==
    /\ pc = "mask"
    /\ args.call = "is_sea"
    /\ ReturnBool(is_sea(args.mask, args.lat1, args.lon1))

\* landmask.is_path_clear(lat1, lon1, lat2, lon2, n_samples)
IsPathClear ==
    /\ pc = "mask"
    /\ args.call = "is_path_clear"
    /\ args.n_samples >= 1
    /\ ReturnBool(is_path_clear(args.mask, args.lat1, args.lon1, args.lat2,
                                args.lon2, args.n_samples))

\* line 106 with n_samples = 0: "alpha = i / n_samples" divides 0 by 0
IsPathClearDividesByZero ==
    /\ pc = "mask"
    /\ args.call = "is_path_clear"
    /\ args.n_samples = 0
    /\ returned' = "ZeroDivisionError"
    /\ pc' = "done"
    /\ UNCHANGED << args, meteo_client, open_set, counter, visited_best_g,
                    all_waypoints, iteration, current, path, popped, wind_calls >>

NextMask ==
    \/ IsSea
    \/ IsPathClear
    \/ IsPathClearDividesByZero

SpecMask == InitMask /\ [][NextMask]_vars

\* is_sea holds at the i-th of the n + 1 evenly spaced samples of the
\* segment of the call, the end points included: i = 0 is (lat1, lon1),
\* i = n is (lat2, lon2)
SeaAtSample(i, n) ==
    is_sea(args.mask,
           IF i = 0 THEN args.lat1 ELSE args.lat1 + MulDivTrunc(args.lat2 - args.lat1, i, n),
           IF i = 0 THEN args.lon1 ELSE args.lon1 + MulDivTrunc(args.lon2 - args.lon1, i, n))

\* (lat1, lon1) is outside the raster of the mask
OutsideRaster ==
    \/ args.lat1 > args.mask.top
    \/ args.lat1 <= args.mask.top - args.mask.nrows * args.mask.res
    \/ args.lon1 < args.mask.left
    \/ args.lon1 >= args.mask.left + args.mask.ncols * args.mask.res

\* is_sea returns false for a point outside the raster, and true for every
\* point when no mask is loaded
IsSeaAsClaimed ==
    (pc = "done" /\ args.call = "is_sea")
    => /\ ~args.mask.dataset => returned = "True"
       /\ (args.mask.dataset /\ OutsideRaster) => returned = "False"

\* C17 (as claimed): is_path_clear(lat1, lon1, lat2, lon2, N) returns true
\* exactly when is_sea is true at all N + 1 evenly spaced samples of the
\* segment, for every N; is_sea returns false outside the raster and true
\* everywhere when no mask is loaded.
C17_PathClearIffEverySampleIsSea ==
    /\ IsSeaAsClaimed
    /\ (pc = "done" /\ args.call = "is_path_clear")
       => (returned = "True"
           <=> \A i \in 0..args.n_samples : SeaAtSample(i, args.n_samples))

\* C17 (amended): for N >= 1, is_path_clear returns true exactly when is_sea
\* is true at all N + 1 evenly spaced samples, both end points included, and
\* false otherwise; for N = 0 it raises ZeroDivisionError; is_sea returns
\* false outside the raster and true everywhere when no mask is loaded.
C17_PathClearIffEverySampleIsSeaForPositiveN ==
    /\ IsSeaAsClaimed
    /\ (pc = "done" /\ args.call = "is_path_clear" /\ args.n_samples >= 1)
       => /\ returned \in {"True", "False"}
          /\ returned = "True"
             <=> \A i \in 0..args.n_samples : SeaAtSample(i, args.n_samples)
    /\ (pc = "done" /\ args.call = "is_path_clear" /\ args.n_samples = 0)
       => returned = "ZeroDivisionError"

\* a call of is_path_clear returned False for a segment of a loaded mask
\* whose only sample on land is its far end
C17_Witness ==
    /\ pc = "done"
    /\ args.call = "is_path_clear"
    /\ args.mask.dataset
    /\ args.n_samples >= 2
    /\ returned = "False"
    /\ \A i \in 0..(args.n_samples - 1) : SeaAtSample(i, args.n_samples)
    /\ ~SeaAtSample(args.n_samples, args.n_samples)

\* ------------------------------------------------------------------------
\* _generate_candidate_headings on its own, in floating point: one call per
\* behaviour.  Angles are binary floating-point numbers with a significand
\* of 12 bits, written in sixty-fourths of a degree: every multiple of 1/64
\* below 64 degrees is a number, from 64 degrees the numbers are 1/32
\* apart, from 128 degrees 1/16, from 256 degrees 1/8.  args holds
\* bearing_goal, wind_dir_from and the two VMG angles of the call, path the
\* list returned.
\* ------------------------------------------------------------------------

\* one degree
Fine == 64

\* the distance between two consecutive numbers around x
Spacing(x) ==
    IF Abs(x) < 64 * Fine THEN 1
    ELSE IF Abs(x) < 128 * Fine THEN 2
    ELSE IF Abs(x) < 256 * Fine THEN 4
    ELSE IF Abs(x) < 512 * Fine THEN 8
    ELSE 16

\* x rounded to the nearest number, a tie going to the even one
RoundToNearest(x, s) ==
    IF 2 * (x % s) < s THEN (x \div s) * s
    ELSE IF 2 * (x % s) > s THEN ((x \div s) + 1) * s
    ELSE IF (x \div s) % 2 = 0 THEN (x \div s) * s
    ELSE ((x \div s) + 1) * s

\* a + b in floating point
FloatAdd(a, b) == RoundToNearest(a + b, Spacing(a + b))

\* x % 360.0 in floating point: the remainder of the division truncated
\* toward zero, which is exact, and, when it is negative, 360.0 added to it,
\* which is rounded
FloatMod360(x) ==
    IF x >= 0 THEN x % (360 * Fine)
    ELSE IF (-x) % (360 * Fine) = 0 THEN 0
    ELSE FloatAdd(-((-x) % (360 * Fine)), 360 * Fine)

\* lines 112-125 in floating point
BaseHeadingsFloat(bearing_goal, wind_dir_from, twa_up, twa_dn, n_spread) ==
    {FloatMod360(FloatAdd(bearing_goal, d * Fine)) : d \in Linspace25(n_spread)}
    \cup {FloatMod360(FloatAdd(wind_dir_from, s * twa_up)) : s \in {-1, 1}}
    \cup {FloatMod360(FloatAdd(wind_dir_from, s * twa_dn)) : s \in {-1, 1}}

\* lines 128-130 in floating point
JitterFloat(base) ==
    base \cup {FloatMod360(FloatAdd(b, d * Fine)) : b \in base, d \in {-10, 10}}

\* the bearings to the goal that are tried: 0, 5, just below 25, 123.5 and
\* 340 degrees
ProbeBearings == {0, 5 * Fine, 25 * Fine - 1, 123 * Fine + 32, 340 * Fine}

\* the wind directions that are tried: just below 10, just below 45, 45, 200
\* and 359.875 degrees
ProbeWindDirs == {10 * Fine - 1, 45 * Fine - 1, 45 * Fine, 200 * Fine, 359 * Fine + 56}

\* the upwind and the downwind VMG angles that are tried
ProbeTwaUp == {40 * Fine, 45 * Fine}

ProbeTwaDn == {150 * Fine, 165 * Fine}

InitHeadings ==
    /\ \E b \in ProbeBearings, w \in ProbeWindDirs, up \in ProbeTwaUp, dn \in ProbeTwaDn :
          args = [bearing_goal |-> b, wind_dir_from |-> w, twa_up |-> up, twa_dn |-> dn]
    /\ pc = "headings"
    /\ returned = ""
    /\ path = << >>
    /\ NoSearch

\* lines 104-132 with n_spread = 6: the call returns sorted(base_headings)
GenerateCandidateHeadings ==
    /\ pc = "headings"
    /\ path' = SortedSeq(JitterFloat(BaseHeadingsFloat(args.bearing_goal,
                             args.wind_dir_from, args.twa_up, args.twa_dn, 6)))
    /\ pc' = "done"
    /\ returned' = "headings"
    /\ UNCHANGED << args, meteo_client, open_set, counter, visited_best_g,
                    all_waypoints, iteration, current, popped, wind_calls >>

NextHeadings == GenerateCandidateHeadings

SpecHeadings == InitHeadings /\ [][NextHeadings]_vars

\* C29: one expansion evaluates at most 30 distinct candidate headings (6
\* around the bearing to the goal, 2 upwind and 2 downwind, each with its
\* neighbours at +10 and -10 degrees), all in [0, 360) and ascending, fewer
\* than the default beam_width of 40, so that the beam pruning discards none.
C29_AtMostThirtyHeadingsBelow360 ==
    returned = "headings" =>
        /\ Len(path) <= 30
        /\ Len(path) < DEFAULT_BEAM_WIDTH
        /\ \A i \in 1..Len(path) :
              /\ 0 <= path[i]
              /\ path[i] < 360 * Fine
              /\ i > 1 => path[i - 1] < path[i]

====
